---- MODULE Spec2Model ----
(***************************************************************************)
(* Model of custom_components/octotelematics/coordinator.py:               *)
(* OctoDataUpdateCoordinator, the poller that logs in to the OCTO          *)
(* Telematics portal, fetches the statistics page and extracts the total   *)
(* kilometres and the as-of date, with retries and last-known fallbacks.   *)
(*                                                                         *)
(* Texts are sequences of one-character strings.  Python's None for        *)
(* total_km is the integer None (below every value int() of a digit run    *)
(* can give).                                                              *)
(***************************************************************************)
EXTENDS Integers, Sequences, FiniteSets, TLC

VARIABLES
    cookies,               \* self._cookies: the Session State
    last_known_values,     \* self._last_known_values: [total_km, updated_at]
    consecutive_failures,  \* self._consecutive_failures: the Failure Counter
    pc,                    \* position of the running update() call
    attempt,               \* loop variable of _async_update_data (0-based)
    result,                \* how the last update() call ended
    returned,              \* <<value>> the last update() call returned, <<>> if none
    slept,                 \* asyncio.sleep() delay that preceded the current attempt
    calls,                 \* number of update() calls started
    last_http,             \* the latest HTTP exchange of the running call
    hist                   \* history of the run, for stating the properties

vars == <<cookies, last_known_values, consecutive_failures, pc, attempt,
          result, returned, slept, calls, last_http, hist>>

-----------------------------------------------------------------------------
(* Bounds of the model *)

MaxCalls == 7

-----------------------------------------------------------------------------
(* Program constants *)

\* Variant of max_retries: one attempt more
max_retries_Four == 3 + 1

max_retries == 3

FailureLimit == 5

None == -1

Unknown == <<"U","n","k","n","o","w","n">>

KM_MARKER == <<"K","M"," ","T","O","T","A","L","I"," ","P","E","R","C","O","R","S","I">>

AL_LABEL == <<"A","L",":">>

Digits == {"0","1","2","3","4","5","6","7","8","9"}

-----------------------------------------------------------------------------
(* Text helpers: what the Python string operations used by the code do *)

DigitValue(c) ==
    CASE c = "0" -> 0 [] c = "1" -> 1 [] c = "2" -> 2 [] c = "3" -> 3
      [] c = "4" -> 4 [] c = "5" -> 5 [] c = "6" -> 6 [] c = "7" -> 7
      [] c = "8" -> 8 [] c = "9" -> 9

\* int(s) for a non-empty run of digits
RECURSIVE ParseInt(_)
ParseInt(ds) ==
    IF ds = <<>> THEN 0
    ELSE 10 * ParseInt(SubSeq(ds, 1, Len(ds) - 1)) + DigitValue(ds[Len(ds)])

\* sub in text
Contains(text, sub) ==
    \E i \in 0..(Len(text) - Len(sub)) : SubSeq(text, i + 1, i + Len(sub)) = sub

\* re.findall(r'\d+', text): the maximal runs of digits, left to right
RECURSIVE FindAllNumbers(_, _, _, _)
FindAllNumbers(text, i, cur, acc) ==
    IF i > Len(text)
    THEN IF cur = <<>> THEN acc ELSE Append(acc, cur)
    ELSE IF text[i] \in Digits
         THEN FindAllNumbers(text, i + 1, Append(cur, text[i]), acc)
         ELSE FindAllNumbers(text, i + 1, <<>>,
                             IF cur = <<>> THEN acc ELSE Append(acc, cur))

\* text.split('/')
RECURSIVE SplitSlash(_, _, _, _)
SplitSlash(text, i, cur, acc) ==
    IF i > Len(text)
    THEN Append(acc, cur)
    ELSE IF text[i] = "/"
         THEN SplitSlash(text, i + 1, <<>>, Append(acc, cur))
         ELSE SplitSlash(text, i + 1, Append(cur, text[i]), acc)

\* s.zfill(2)
ZFill2(s) ==
    IF Len(s) >= 2 THEN s
    ELSE IF Len(s) = 0 THEN <<"0", "0">>
    ELSE IF s[1] \in {"+", "-"} THEN <<s[1], "0">>
    ELSE <<"0", s[1]>>

\* x or 0
OrZero(x) == IF x = None \/ x = 0 THEN 0 ELSE x

-----------------------------------------------------------------------------
(* Extraction.  A parsed statistics container is given by what the two      *)
(* extractors read from it: rows, the get_text(strip=True) of each          *)
(* <tr align="center"> in document order, and tables, for each <table> the  *)
(* get_text(strip=True) of each of its <td class="inputMask"> cells.        *)

\* Variant of KmScan: only the first row holding the marker is looked at
RECURSIVE KmScan_FirstMarkerOnly(_, _)
KmScan_FirstMarkerOnly(rows, i) ==
    IF i > Len(rows) THEN <<>>
    ELSE LET numbers == FindAllNumbers(rows[i], 1, <<>>, <<>>)
         IN  IF Contains(rows[i], KM_MARKER)
             THEN IF numbers # <<>>
                  THEN <<ParseInt(numbers[Len(numbers)])>>
                  ELSE <<>>
             ELSE KmScan_FirstMarkerOnly(rows, i + 1)

\* lines 44-49: the first row holding the marker and at least one number
RECURSIVE KmScan(_, _)
KmScan(rows, i) ==
    IF i > Len(rows) THEN <<>>
    ELSE LET numbers == FindAllNumbers(rows[i], 1, <<>>, <<>>)
         IN  IF Contains(rows[i], KM_MARKER) /\ numbers # <<>>
             THEN <<ParseInt(numbers[Len(numbers)])>>
             ELSE KmScan(rows, i + 1)

\* _extract_km_value: [value, ok]
extract_km_value(rows, lkv) ==
    LET hit == KmScan(rows, 1)
    IN  IF hit # <<>>
        THEN [value |-> hit[1], ok |-> TRUE]
        ELSE [value |-> OrZero(lkv.total_km), ok |-> FALSE]

\* lines 66-70: day, month, year = date_text.split('/') and the f-string
FormatDate(date_text) ==
    LET parts == SplitSlash(date_text, 1, <<>>, <<>>)
    IN  IF Len(parts) = 3
        THEN <<parts[3] \o <<"-">> \o ZFill2(parts[2]) \o <<"-">> \o ZFill2(parts[1])>>
        ELSE <<>>

\* lines 61-70: the cells of one table
RECURSIVE CellScan(_, _)
CellScan(cells, i) ==
    IF i > Len(cells) THEN <<>>
    ELSE IF /\ cells[i] = AL_LABEL
            /\ i + 1 <= Len(cells)
            /\ cells[i + 1] # <<>>
            /\ FormatDate(cells[i + 1]) # <<>>
         THEN FormatDate(cells[i + 1])
         ELSE CellScan(cells, i + 1)

\* lines 58-59: the tables in document order
RECURSIVE TableScan(_, _)
TableScan(tables, t) ==
    IF t > Len(tables) THEN <<>>
    ELSE IF CellScan(tables[t], 1) # <<>>
         THEN CellScan(tables[t], 1)
         ELSE TableScan(tables, t + 1)

\* _extract_update_date: [value, ok]
extract_update_date(tables, lkv) ==
    LET hit == TableScan(tables, 1)
    IN  IF hit # <<>>
        THEN [value |-> hit[1], ok |-> TRUE]
        ELSE [value |-> lkv.updated_at, ok |-> FALSE]

-----------------------------------------------------------------------------
(* The inputs: texts, pages, cookie jars, HTTP outcomes *)

RowKm123456 == KM_MARKER \o <<" ","1","2","3","4","5","6"," ","K","M">>

RowKm45 == <<"3"," ">> \o KM_MARKER \o <<" ","4","5">>

RowNoDigits == KM_MARKER \o <<":">>

RowOther == <<"K","M"," ","9","9">>

DAL_LABEL == <<"D","A","L",":">>

Date_01_01_2024 == <<"0","1","/","0","1","/","2","0","2","4">>

Date_05_03_2024 == <<"0","5","/","0","3","/","2","0","2","4">>

Date_5_3_2024 == <<"5","/","3","/","2","0","2","4">>

Date_7_12_2023 == <<"7","/","1","2","/","2","0","2","3">>

Date_TwoParts == <<"1","/","2">>

NoPage == [div |-> FALSE, rows |-> <<>>, tables |-> <<>>]

PageFull ==
    [div |-> TRUE, rows |-> <<RowOther, RowKm123456>>,
     tables |-> << <<DAL_LABEL, Date_01_01_2024, AL_LABEL, Date_05_03_2024>> >>]

PageKmOnly ==
    [div |-> TRUE, rows |-> <<RowKm45>>,
     tables |-> << <<AL_LABEL>>, <<AL_LABEL, Date_TwoParts>> >>]

PageDateOnly ==
    [div |-> TRUE, rows |-> <<RowOther>>,
     tables |-> << <<AL_LABEL, Date_5_3_2024>> >>]

PageSecond ==
    [div |-> TRUE, rows |-> <<RowNoDigits, RowKm45>>,
     tables |-> << <<AL_LABEL, Date_TwoParts, AL_LABEL, Date_7_12_2023>> >>]

PageEmpty == [div |-> TRUE, rows |-> <<RowNoDigits>>, tables |-> << <<AL_LABEL, <<>> >> >>]

Pages == {NoPage, PageFull, PageKmOnly, PageDateOnly, PageSecond, PageEmpty}

CookieJars == {{}, {"JSESSIONID=a"}, {"JSESSIONID=b"}}

Statuses == {200, 401, 500}

Outcome(kind, status, jar, page) ==
    [kind |-> kind, status |-> status, jar |-> jar, page |-> page]

Failures ==
    {Outcome(k, 0, {}, NoPage) : k \in {"timeout", "client_error"}}

LoginGetOutcomes ==
    {Outcome("status", s, {}, NoPage) : s \in Statuses}
        \cup Failures
        \cup {Outcome("unexpected", 0, {}, NoPage)}

LoginPostOutcomes ==
    {Outcome("status", 200, j, NoPage) : j \in CookieJars}
        \cup {Outcome("status", s, {}, NoPage) : s \in Statuses \ {200}}
        \cup Failures
        \cup {Outcome("unexpected", 0, {}, NoPage)}

StatsOutcomes ==
    {Outcome("status", 200, {}, p) : p \in Pages}
        \cup {Outcome("status", s, {}, NoPage) : s \in Statuses \ {200}}
        \cup Failures
        \cup {Outcome("unexpected", 0, {}, NoPage)}

-----------------------------------------------------------------------------
(* How an attempt ends.  A step is [next, result, failures, sleep]: next    *)
(* is "retry" (the loop goes on), "return" or "raise"; failures is the new  *)
(* value of self._consecutive_failures; sleep the asyncio.sleep() delay.    *)

Step(next, res, failures, sleep) ==
    [next |-> next, result |-> res, failures |-> failures, sleep |-> sleep]

\* Variant of TimeoutError_handler: the tolerance test is >= instead of >
TimeoutError_handler_Early(att, cf) ==
    IF att = max_retries - 1
    THEN IF cf + 1 >= FailureLimit
         THEN Step("raise", "UpdateFailed", cf + 1, 0)
         ELSE Step("return", "LastKnown", cf + 1, 0)
    ELSE Step("retry", "none", cf, 2 ^ att)

\* lines 128-135: except asyncio.TimeoutError
TimeoutError_handler(att, cf) ==
    IF att = max_retries - 1
    THEN IF cf + 1 > FailureLimit
         THEN Step("raise", "UpdateFailed", cf + 1, 0)
         ELSE Step("return", "LastKnown", cf + 1, 0)
    ELSE Step("retry", "none", cf, 2 ^ att)

\* lines 137-138: except ConfigEntryAuthFailed
AuthFailed_handler(att, cf) ==
    Step("raise", "AuthenticationFailed", cf, 0)

\* lines 140-144: except aiohttp.ClientError
ClientError_handler(att, cf) ==
    IF att = max_retries - 1
    THEN Step("return", "LastKnown", cf, 0)
    ELSE Step("retry", "none", cf, 2 ^ att)

\* lines 146-150: except Exception
Exception_handler(att, cf) ==
    IF att = max_retries - 1
    THEN Step("return", "LastKnown", cf, 0)
    ELSE Step("retry", "none", cf, 2 ^ att)

\* Variant of Status401: a 401 on the last attempt falls back to Last-Known
Status401_Fallback(att, cf) ==
    IF att < max_retries - 1
    THEN Step("retry", "none", cf, 0)
    ELSE Step("return", "LastKnown", cf, 0)

\* lines 89-93: response.status == 401
Status401(att, cf) ==
    IF att < max_retries - 1
    THEN Step("retry", "none", cf, 0)
    ELSE AuthFailed_handler(att, cf)

\* Variant of NoStatistics: running out of attempts raises UpdateFailed
NoStatistics_Raise(att, cf) ==
    IF att < max_retries - 1
    THEN Step("retry", "none", cf, 0)
    ELSE Step("raise", "UpdateFailed", cf, 0)

\* lines 95-99 and 106-110: status != 200, or no statistics container
NoStatistics(att, cf) ==
    IF att < max_retries - 1
    THEN Step("retry", "none", cf, 0)
    ELSE Step("return", "LastKnown", cf, 0)

\* lines 122-126: the fresh Measurement is returned
Fresh(att, cf) == Step("return", "Measurement", 0, 0)

\* Variant of LoginGetStep: the status of the login page is not looked at
LoginGetStep_Lenient(o, att, cf) ==
    CASE o.kind = "timeout" -> TimeoutError_handler(att, cf)
      [] o.kind = "client_error" -> AuthFailed_handler(att, cf)
      [] o.kind = "unexpected" -> Exception_handler(att, cf)
      [] OTHER -> Step("post", "none", cf, 0)

\* Variant of LoginGetStep: a transport error is handled like one of the
\* statistics request (retry, then fall back)
LoginGetStep_TransportRetry(o, att, cf) ==
    CASE o.kind = "timeout" -> TimeoutError_handler(att, cf)
      [] o.kind = "client_error" -> ClientError_handler(att, cf)
      [] o.kind = "unexpected" -> Exception_handler(att, cf)
      [] o.kind = "status" /\ o.status # 200 -> AuthFailed_handler(att, cf)
      [] OTHER -> Step("post", "none", cf, 0)

\* lines 158-160 and 178-179: _login's GET of the login page
LoginGetStep(o, att, cf) ==
    CASE o.kind = "timeout" -> TimeoutError_handler(att, cf)
      [] o.kind = "client_error" -> AuthFailed_handler(att, cf)
      [] o.kind = "unexpected" -> Exception_handler(att, cf)
      [] o.kind = "status" /\ o.status # 200 -> AuthFailed_handler(att, cf)
      [] OTHER -> Step("post", "none", cf, 0)

\* Variant of LoginPostStep: a refused login is handled like a transport
\* error of the statistics request (retry, then fall back)
LoginPostStep_Swallow(o, att, cf) ==
    CASE o.kind = "timeout" -> TimeoutError_handler(att, cf)
      [] o.kind = "client_error" -> AuthFailed_handler(att, cf)
      [] o.kind = "unexpected" -> Exception_handler(att, cf)
      [] o.kind = "status" /\ o.status # 200 -> ClientError_handler(att, cf)
      [] OTHER -> Step("stats", "none", cf, 0)

\* lines 168-179: _login's POST of the credentials
LoginPostStep(o, att, cf) ==
    CASE o.kind = "timeout" -> TimeoutError_handler(att, cf)
      [] o.kind = "client_error" -> AuthFailed_handler(att, cf)
      [] o.kind = "unexpected" -> Exception_handler(att, cf)
      [] o.kind = "status" /\ o.status # 200 -> AuthFailed_handler(att, cf)
      [] OTHER -> Step("stats", "none", cf, 0)

\* line 176: the cookies of the POST response become the Session State
LoginCookies(o, c) ==
    IF o.kind = "status" /\ o.status = 200 THEN o.jar ELSE c

\* lines 85-126 with the except clauses: the statistics request
StatsStep(o, att, cf) ==
    CASE o.kind = "timeout" -> TimeoutError_handler(att, cf)
      [] o.kind = "client_error" -> ClientError_handler(att, cf)
      [] o.kind = "unexpected" -> Exception_handler(att, cf)
      [] o.kind = "status" /\ o.status = 401 -> Status401(att, cf)
      [] o.kind = "status" /\ o.status # 200 -> NoStatistics(att, cf)
      [] o.kind = "status" /\ ~o.page.div -> NoStatistics(att, cf)
      [] OTHER -> Fresh(att, cf)

\* Variant of StatsCookies: a 401 leaves the Session State as it is
StatsCookies_Keep(o, c) == c

\* Variant of StatsCookies: any refused statistics request clears the Session
\* State
StatsCookies_AnyError(o, c) ==
    IF o.kind = "status" /\ o.status # 200 THEN {} ELSE c

\* lines 89-90: a 401 clears the Session State
StatsCookies(o, c) ==
    IF o.kind = "status" /\ o.status = 401 THEN {} ELSE c

\* Variant of UpdateLastKnown: both fields are overwritten unconditionally
UpdateLastKnown_Always(lkv, km, date) ==
    [total_km |-> km.value, updated_at |-> date.value]

\* Variant of UpdateLastKnown: the fields are overwritten only together
UpdateLastKnown_Coupled(lkv, km, date) ==
    IF km.ok /\ date.ok
    THEN [total_km |-> km.value, updated_at |-> date.value]
    ELSE lkv

\* lines 116-120: each field is overwritten when its extraction succeeded
UpdateLastKnown(lkv, km, date) ==
    [total_km   |-> IF km.ok THEN km.value ELSE lkv.total_km,
     updated_at |-> IF date.ok THEN date.value ELSE lkv.updated_at]

\* lines 123-126: the returned Measurement
Measurement(km, date) ==
    [total_km |-> km.value, updated_at |-> date.value]

\* Variant of AttemptEntry: every attempt logs in
AttemptEntry_Always(c) == "login_get"

\* lines 80-82: an attempt logs in first when there are no cookies
AttemptEntry(c) == IF c = {} THEN "login_get" ELSE "stats"

\* line 152: the loop ran out of attempts
Normalize(r, att) ==
    IF r.next = "retry" /\ att + 1 >= max_retries
    THEN Step("return", "LastKnown", r.failures, 0)
    ELSE r

-----------------------------------------------------------------------------
(* History of the run: what the properties speak about and the code does   *)
(* not store.  Per update() call: failuresBefore and lastBefore (the        *)
(* Failure Counter and the Last-Known Values when the call started), the    *)
(* number of 401 answers, the number of logins made in the attempt right    *)
(* after a 401, whether every attempt so far ended in a timeout, the        *)
(* numbers of logins started and of statistics requests made in the        *)
(* current attempt, and whether the Session State was empty when the        *)
(* current attempt started.                                                 *)
(* Across calls: fullFails (consecutive calls that used up their attempts   *)
(* on a transient failure), failedSince (calls that ended without a fresh   *)
(* Measurement since the last call that returned one), lastGoodKm and       *)
(* lastGoodDate (the latest extracted values).                              *)

NoHttp == [req |-> "none", attempt |-> 0, o |-> Outcome("none", 0, {}, NoPage)]

Http(req, att, o) == [req |-> req, attempt |-> att, o |-> o]

Is401(o) == o.kind = "status" /\ o.status = 401

Ended(r) == r.next \in {"return", "raise"}

HistInit ==
    [failuresBefore |-> 0,
     lastBefore     |-> [total_km |-> None, updated_at |-> Unknown],
     n401 |-> 0, relogins |-> 0, after401 |-> FALSE, onlyTimeouts |-> TRUE,
     attemptLogins |-> 0, attemptFetches |-> 0, startEmpty |-> TRUE,
     fullFails |-> 0, failedSince |-> 0,
     lastGoodKm |-> None, lastGoodDate |-> Unknown]

HistStart(h, cf, lkv, c) ==
    [h EXCEPT !.failuresBefore = cf, !.lastBefore = lkv,
              !.n401 = 0, !.relogins = 0, !.after401 = FALSE,
              !.onlyTimeouts = TRUE,
              !.attemptLogins = 0, !.attemptFetches = 0,
              !.startEmpty = (c = {})]

HistRetry(h, r, c) ==
    IF r.next # "retry" THEN h
    ELSE [h EXCEPT !.startEmpty = (c = {}),
                   !.attemptLogins = 0, !.attemptFetches = 0]

HistEnd(h, r) ==
    IF ~Ended(r) THEN h
    ELSE [h EXCEPT
            !.fullFails = IF r.result \in {"LastKnown", "UpdateFailed"}
                          THEN @ + 1 ELSE 0,
            !.failedSince = IF r.result = "Measurement" THEN 0 ELSE @ + 1]

HistTimeout(h, o, r) ==
    [h EXCEPT !.onlyTimeouts = @ /\ (r.next \in {"post", "stats"} \/ o.kind = "timeout")]

-----------------------------------------------------------------------------
(* The state machine *)

\* lines 29-38: __init__
Init ==
    /\ cookies = {}
    /\ last_known_values = [total_km |-> None, updated_at |-> Unknown]
    /\ consecutive_failures = 0
    /\ pc = "idle"
    /\ attempt = 0
    /\ result = "none"
    /\ returned = <<>>
    /\ slept = 0
    /\ calls = 0
    /\ last_http = NoHttp
    /\ hist = HistInit

\* The effect of a step r of the running call on the program's state
Apply(r, c, lkv, value) ==
    /\ cookies' = c
    /\ last_known_values' = lkv
    /\ consecutive_failures' = r.failures
    /\ pc' = CASE r.next = "retry" -> AttemptEntry(c)
               [] r.next = "post"  -> "login_post"
               [] r.next = "stats" -> "stats"
               [] OTHER            -> "done"
    /\ attempt' = IF r.next = "retry" THEN attempt + 1 ELSE attempt
    /\ slept' = IF r.next = "retry" THEN r.sleep ELSE slept
    /\ result' = r.result
    /\ returned' = IF r.next = "return" THEN <<value>> ELSE <<>>
    /\ UNCHANGED calls

\* line 76-78: the scheduler calls _async_update_data()
UpdateStart ==
    /\ pc \in {"idle", "done"}
    /\ calls < MaxCalls
    /\ calls' = calls + 1
    /\ attempt' = 0
    /\ pc' = AttemptEntry(cookies)
    /\ result' = "none"
    /\ returned' = <<>>
    /\ slept' = 0
    /\ last_http' = NoHttp
    /\ hist' = HistStart(hist, consecutive_failures, last_known_values, cookies)
    /\ UNCHANGED <<cookies, last_known_values, consecutive_failures>>

\* lines 158-160: GET login.jsp answers, fails or times out
LoginGet ==
    /\ pc = "login_get"
    /\ \E o \in LoginGetOutcomes :
         LET r == Normalize(LoginGetStep(o, attempt, consecutive_failures), attempt)
             h == [hist EXCEPT !.relogins = IF hist.after401 THEN @ + 1 ELSE @,
                               !.after401 = FALSE,
                               !.attemptLogins = @ + 1]
         IN  /\ Apply(r, cookies, last_known_values, last_known_values)
             /\ last_http' = Http("login_get", attempt, o)
             /\ hist' = HistEnd(HistRetry(HistTimeout(h, o, r), r, cookies), r)

\* lines 168-176: POST login answers, fails or times out
LoginPost ==
    /\ pc = "login_post"
    /\ \E o \in LoginPostOutcomes :
         LET r == Normalize(LoginPostStep(o, attempt, consecutive_failures), attempt)
         IN  /\ Apply(r, LoginCookies(o, cookies), last_known_values, last_known_values)
             /\ last_http' = Http("login_post", attempt, o)
             /\ hist' = HistEnd(HistRetry(HistTimeout(hist, o, r), r,
                                           LoginCookies(o, cookies)), r)

\* lines 85-126 with the except clauses: the statistics request ends with
\* outcome o; on a page with the statistics container the values are
\* extracted and returned
StatsAnswer(o) ==
    LET r     == Normalize(StatsStep(o, attempt, consecutive_failures), attempt)
        fresh == r.result = "Measurement"
        km    == extract_km_value(o.page.rows, last_known_values)
        date  == extract_update_date(o.page.tables, last_known_values)
        lkv   == IF fresh THEN UpdateLastKnown(last_known_values, km, date)
                 ELSE last_known_values
        value == IF fresh THEN Measurement(km, date) ELSE lkv
        h     == [hist EXCEPT
                    !.attemptFetches = @ + 1,
                    !.n401 = IF Is401(o) THEN @ + 1 ELSE @,
                    !.after401 = Is401(o) /\ r.next = "retry",
                    !.lastGoodKm = IF fresh /\ km.ok THEN km.value ELSE @,
                    !.lastGoodDate = IF fresh /\ date.ok THEN date.value ELSE @]
    IN  /\ Apply(r, StatsCookies(o, cookies), lkv, value)
        /\ last_http' = Http("stats", attempt, o)
        /\ hist' = HistEnd(HistRetry(HistTimeout(h, o, r), r,
                                      StatsCookies(o, cookies)), r)

\* lines 85-126: GET consumiCustomer.jsp answers, fails or times out
FetchStats ==
    /\ pc = "stats"
    /\ \E o \in StatsOutcomes : StatsAnswer(o)

Next == UpdateStart \/ LoginGet \/ LoginPost \/ FetchStats

Spec == Init /\ [][Next]_vars

-----------------------------------------------------------------------------
(* The extraction on its own: a Poller that is logged in and whose          *)
(* statistics request is always answered 200 with a page that has the       *)
(* statistics container, over a larger set of rows and date cells.          *)

Date_xx_03_2024 == <<"x","x","/","0","3","/","2","0","2","4">>

Date_05_03_24 == <<"0","5","/","0","3","/","2","4">>

Date_FourParts == <<"1","/","2","/","3","/","4">>

Date_Dashes == <<"2","0","2","4","-","0","3","-","0","5">>

ExtractRows ==
    { <<RowOther, RowKm123456>>,
      <<RowKm45>>,
      <<RowOther>>,
      <<RowNoDigits, RowKm45>>,
      <<RowNoDigits>>,
      <<RowKm45, RowKm123456>>,
      <<>> }

ExtractTables ==
    { << <<DAL_LABEL, Date_01_01_2024, AL_LABEL, Date_05_03_2024>> >>,
      << <<AL_LABEL>>, <<AL_LABEL, Date_TwoParts>> >>,
      << <<AL_LABEL, Date_5_3_2024>> >>,
      << <<AL_LABEL, Date_TwoParts, AL_LABEL, Date_7_12_2023>> >>,
      << <<AL_LABEL, <<>> >> >>,
      << <<AL_LABEL, Date_xx_03_2024>> >>,
      << <<AL_LABEL, Date_05_03_24>> >>,
      << <<AL_LABEL, Date_FourParts>> >>,
      << <<AL_LABEL, Date_Dashes>> >>,
      << >> }

ExtractPages ==
    {[div |-> TRUE, rows |-> r, tables |-> t] : r \in ExtractRows, t \in ExtractTables}

\* The first update() call of a new Poller, right after its login succeeded
\* and before its statistics request
InitExtract ==
    /\ cookies = {"JSESSIONID=a"}
    /\ last_known_values = [total_km |-> None, updated_at |-> Unknown]
    /\ consecutive_failures = 0
    /\ pc = "stats"
    /\ attempt = 0
    /\ result = "none"
    /\ returned = <<>>
    /\ slept = 0
    /\ calls = 1
    /\ last_http = Http("login_post", 0, Outcome("status", 200, {"JSESSIONID=a"}, NoPage))
    /\ hist = [HistInit EXCEPT !.attemptLogins = 1]

\* lines 85-126: GET consumiCustomer.jsp answers 200 with a statistics page
FetchExtract ==
    /\ pc = "stats"
    /\ \E p \in ExtractPages : StatsAnswer(Outcome("status", 200, {}, p))

NextExtract == UpdateStart \/ FetchExtract

SpecExtract == InitExtract /\ [][NextExtract]_vars

TypeOK ==
    /\ cookies \in CookieJars
    /\ consecutive_failures \in 0..MaxCalls
    /\ pc \in {"idle", "login_get", "login_post", "stats", "done"}
    /\ attempt \in 0..(max_retries - 1)
    /\ result \in {"none", "Measurement", "LastKnown", "AuthenticationFailed", "UpdateFailed"}
    /\ Len(returned) <= 1
    /\ calls \in 0..MaxCalls

-----------------------------------------------------------------------------
(* Properties *)

Date_2024_03_05 == <<"2","0","2","4","-","0","3","-","0","5">>

LastAttempt == max_retries - 1

\* The latest exchange of the running call is a login request (GET or POST)
\* that was answered with a status other than 200.
LoginRefused ==
    /\ last_http.req \in {"login_get", "login_post"}
    /\ last_http.o.kind = "status"
    /\ last_http.o.status # 200

\* The latest exchange of the running call is the statistics request,
\* answered 401.
StatsGot401 == last_http.req = "stats" /\ Is401(last_http.o)

\* The latest exchange is the statistics request, answered with a status
\* other than 200 and 401, or with a page without the statistics container.
StatsUnusable ==
    /\ last_http.req = "stats"
    /\ last_http.o.kind = "status"
    /\ \/ last_http.o.status \notin {200, 401}
       \/ last_http.o.status = 200 /\ ~last_http.o.page.div

\* C1: a login GET or POST answered non-200 ends the call at once, in the
\* attempt in which it was answered: AuthenticationFailed is raised, nothing
\* is returned, and the call makes no further attempt or request.
C1_AuthNeverDowngraded ==
    LoginRefused =>
        /\ pc = "done"
        /\ result = "AuthenticationFailed"
        /\ returned = <<>>
        /\ attempt = last_http.attempt

\* C1 witness: invalid credentials on the very first call of the Poller.
C1_Witness ==
    /\ LoginRefused
    /\ last_http.req = "login_post"
    /\ calls = 1
    /\ attempt = 0
    /\ pc = "done"

\* C2: a 401 from the statistics page always clears the Session State; on
\* attempt 1 or 2 the call moves on to the next attempt, which starts with a
\* login; on attempt 3 the call raises AuthenticationFailed and returns
\* nothing.
C2_Stats401 ==
    StatsGot401 =>
        /\ cookies = {}
        /\ IF last_http.attempt < LastAttempt
           THEN /\ pc = "login_get"
                /\ attempt = last_http.attempt + 1
                /\ result = "none"
           ELSE /\ pc = "done"
                /\ result = "AuthenticationFailed"
                /\ returned = <<>>

\* C2 witness: a call that got 401 on each of its three attempts.
C2_Witness ==
    /\ StatsGot401
    /\ hist.n401 = 3
    /\ pc = "done"
    /\ result = "AuthenticationFailed"

\* C3 as stated: a call in which the statistics page answered 401 has made
\* exactly one re-login by the time it ends.
C3_ExactlyOneRelogin ==
    (pc = "done" /\ hist.n401 > 0) => hist.relogins = 1

\* C3 amended: each 401 on attempt 1 or 2 clears the Session State and is
\* followed by exactly one login, made at the start of the next attempt of
\* the same call; a 401 on attempt 3 clears the Session State and is followed
\* by no login, the call raising AuthenticationFailed.
C3_ReloginPerRetried401 ==
    LET final == IF StatsGot401 /\ last_http.attempt = LastAttempt THEN 1 ELSE 0
        pending == IF hist.after401 THEN 1 ELSE 0
    IN  /\ hist.relogins = hist.n401 - final - pending
        /\ hist.after401 => (pc = "login_get" /\ cookies = {})
        /\ final = 1 => /\ cookies = {}
                        /\ pc = "done"
                        /\ result = "AuthenticationFailed"

\* C3 witness: a call with two 401s, each followed by its own re-login, that
\* ends with a fresh Measurement.
C3_Witness ==
    /\ pc = "done"
    /\ hist.n401 = 2
    /\ hist.relogins = 2
    /\ result = "Measurement"

\* C4: when the final attempt ends in a timeout or in a transport error of
\* the statistics request, the Failure Counter is one higher than before the
\* call, and the call raises UpdateFailed if it exceeds 5 and returns the
\* Last-Known Values otherwise.
C4_FinalTransientCounts ==
    ( /\ pc = "done"
      /\ last_http.attempt = LastAttempt
      /\ \/ last_http.o.kind = "timeout"
         \/ last_http.o.kind = "client_error" /\ last_http.req = "stats" )
    => /\ consecutive_failures = hist.failuresBefore + 1
       /\ IF consecutive_failures > 5
          THEN result = "UpdateFailed" /\ returned = <<>>
          ELSE result = "LastKnown" /\ returned = <<last_known_values>>

\* C5: the sixth of six consecutive fully-failed calls raises UpdateFailed.
C5_SixthFailureRaises ==
    (pc = "done" /\ hist.fullFails = 6) => result = "UpdateFailed"

\* C6: a call whose three attempts all timed out, started with a Failure
\* Counter of at most 4, returns the unchanged Last-Known Values without
\* raising, and the counter is one higher than before the call.
C6_ThreeTimeouts ==
    ( /\ pc = "done"
      /\ hist.onlyTimeouts
      /\ hist.failuresBefore <= 4 )
    => /\ attempt = LastAttempt
       /\ result = "LastKnown"
       /\ returned = <<last_known_values>>
       /\ last_known_values = hist.lastBefore
       /\ consecutive_failures = hist.failuresBefore + 1

\* C6 witness: the fifth such call in a row, the last one tolerated.
C6_Witness ==
    /\ pc = "done"
    /\ hist.onlyTimeouts
    /\ last_http.o.kind = "timeout"
    /\ hist.failuresBefore = 4
    /\ consecutive_failures = 5
    /\ result = "LastKnown"

\* C7: between calls the Failure Counter is the number of calls that ended
\* without a fresh Measurement since the last call that returned one.
C7_CounterCountsFailures ==
    pc \in {"idle", "done"} => consecutive_failures = hist.failedSince

\* C8: a statistics answer with a status other than 200 and 401, or without
\* the statistics container, sends the call to its next attempt; on the third
\* attempt the call returns the unchanged Last-Known Values and raises
\* nothing.
C8_UnusableAnswer ==
    StatsUnusable =>
        IF last_http.attempt < LastAttempt
        THEN /\ pc \in {"login_get", "stats"}
             /\ attempt = last_http.attempt + 1
             /\ result = "none"
        ELSE /\ pc = "done"
             /\ result = "LastKnown"
             /\ returned = <<last_known_values>>
             /\ last_known_values = hist.lastBefore

\* C8 witness: the third attempt gets a 200 page without the container, in a
\* call whose earlier attempts got a non-success status.
C8_Witness ==
    /\ StatsUnusable
    /\ last_http.o.status = 200
    /\ last_http.attempt = LastAttempt
    /\ pc = "done"
    /\ result = "LastKnown"

\* C9: km and date fall back independently.  After a call that returned a
\* fresh Measurement from a page whose km extraction failed and whose date
\* extraction succeeded, total_km is the prior Last-Known km (0 when there
\* was none), updated_at is the page's date, and only the Last-Known date was
\* overwritten; symmetrically when only the date extraction failed.  The
\* Failure Counter is 0 in both cases.
C9_IndependentFallback ==
    LET page == last_http.o.page
        prev == hist.lastBefore
        km   == extract_km_value(page.rows, prev)
        date == extract_update_date(page.tables, prev)
    IN  (pc = "done" /\ result = "Measurement") =>
          /\ (~km.ok /\ date.ok) =>
                /\ returned[1].total_km = (IF prev.total_km = None THEN 0 ELSE prev.total_km)
                /\ returned[1].updated_at = date.value
                /\ last_known_values.total_km = prev.total_km
                /\ last_known_values.updated_at = date.value
                /\ consecutive_failures = 0
          /\ (km.ok /\ ~date.ok) =>
                /\ returned[1].total_km = km.value
                /\ returned[1].updated_at = prev.updated_at
                /\ last_known_values.total_km = km.value
                /\ last_known_values.updated_at = prev.updated_at
                /\ consecutive_failures = 0
          /\ page = PageDateOnly =>
                /\ returned[1].updated_at = Date_2024_03_05
                /\ last_known_values.total_km = prev.total_km
          /\ page = PageKmOnly =>
                /\ returned[1].total_km = 45
                /\ last_known_values.updated_at = prev.updated_at

\* C9 witness: a page with the date only, after a call that set the km and
\* calls that raised the Failure Counter.
C9_Witness ==
    /\ pc = "done"
    /\ result = "Measurement"
    /\ last_http.o.page = PageDateOnly
    /\ hist.lastBefore = [total_km |-> 45, updated_at |-> Unknown]
    /\ hist.failuresBefore > 0
    /\ returned = <<[total_km |-> 45, updated_at |-> Date_2024_03_05]>>

\* C10: each Last-Known field holds the value of the latest successful
\* extraction of that field (None, "Unknown" when there was none), and
\* nothing but a call that returns a fresh Measurement changes either.
C10_LastKnownIsLatest ==
    /\ last_known_values.total_km = hist.lastGoodKm
    /\ last_known_values.updated_at = hist.lastGoodDate
    /\ (pc \notin {"idle", "done"} \/ result # "Measurement")
          => last_known_values = hist.lastBefore

\* C10 witness: km and date stem from different calls, and a later call that
\* raised left both in place.
C10_Witness ==
    /\ pc = "done"
    /\ result = "AuthenticationFailed"
    /\ last_known_values = [total_km |-> 45, updated_at |-> Date_2024_03_05]
    /\ hist.lastBefore = last_known_values


\* The attempt before the current one ended in a transient failure other
\* than a 401: a timeout or an unexpected error of any request, a transport
\* error of the statistics request, a non-success status or a page without
\* the container; the current attempt has not issued a request yet.
RetriedAfterTransient ==
    /\ pc \in {"login_get", "stats"}
    /\ attempt > 0
    /\ last_http.req # "none"
    /\ last_http.attempt = attempt - 1
    /\ \/ last_http.o.kind \in {"timeout", "unexpected"}
       \/ last_http.req = "stats" /\ last_http.o.kind = "client_error"
       \/ StatsUnusable

\* C11: every retry after a transient failure is preceded by a backoff sleep
\* of 2^k seconds, k the 0-based number of the failed attempt, whatever the
\* transient cause.
C11_BackoffBeforeRetry ==
    RetriedAfterTransient => slept = 2 ^ (attempt - 1)


\* C12: the Session State is empty when the Poller is created; a step
\* changes it only if the step is a login POST answered 200, which sets it to
\* the cookies of that response, or a statistics request answered 401, which
\* empties it.  Timeouts, transport errors, other statuses, a missing
\* container, extraction failures and refused logins leave it as it is.
C12_SessionStateFrame ==
    /\ cookies = {}
    /\ [][ cookies' # cookies =>
             \/ /\ last_http'.req = "login_post"
                /\ last_http'.o.kind = "status"
                /\ last_http'.o.status = 200
                /\ cookies' = last_http'.o.jar
             \/ /\ last_http'.req = "stats"
                /\ Is401(last_http'.o)
                /\ cookies' = {} ]_vars

\* C12 witness: in one call a 401 emptied the Session State, the re-login
\* set it, and a transport error on the last attempt left it in place.
C12_Witness ==
    /\ pc = "done"
    /\ hist.n401 > 0
    /\ last_http.req = "stats"
    /\ last_http.o.kind = "client_error"
    /\ cookies = {"JSESSIONID=b"}


Answered200(h) == h.o.kind = "status" /\ h.o.status = 200

\* C13: the credentials POST is issued only right after the GET of the login
\* page was answered 200 in the same attempt, never after a GET answered
\* otherwise; the Session State, empty while login runs, becomes the cookies
\* of the POST response once that response is a 200, and stays empty after
\* any other end of the login.
C13_LoginOrder ==
    /\ pc = "login_post" =>
          /\ last_http.req = "login_get"
          /\ last_http.attempt = attempt
          /\ Answered200(last_http)
          /\ cookies = {}
    /\ (last_http.req = "login_get" /\ ~Answered200(last_http)) =>
          /\ pc # "login_post"
          /\ cookies = {}
    /\ last_http.req = "login_post" =>
          IF Answered200(last_http)
          THEN cookies = last_http.o.jar /\ pc = "stats"
          ELSE cookies = {}

\* C13 witness: a login whose POST was answered 200 with a cookie.
C13_Witness ==
    /\ last_http.req = "login_post"
    /\ Answered200(last_http)
    /\ cookies = {"JSESSIONID=b"}
    /\ pc = "stats"


\* The latest exchange of the running call is a login request, GET or POST.
LoginExchange == last_http.req \in {"login_get", "login_post"}

\* C14 as stated: a transport error or a timeout during either step of the
\* login ends the call with AuthenticationFailed.
C14_LoginFailureIsAuth ==
    (LoginExchange /\ last_http.o.kind \in {"client_error", "timeout"}) =>
        pc = "done" /\ result = "AuthenticationFailed"

\* C14 amended: a transport error during either step of the login ends the
\* call at once with AuthenticationFailed and nothing returned; a timeout
\* during the login is handled as any timeout: on attempt 1 or 2 the call
\* sleeps 2^k seconds and starts the next attempt with a login, on attempt 3
\* the Failure Counter is incremented and the call returns the Last-Known
\* Values, or raises UpdateFailed if the counter exceeds 5.  Any other
\* exception during the login is retried in the same way on attempt 1 or 2
\* and on attempt 3 the call returns the Last-Known Values with the Failure
\* Counter unchanged.
C14_LoginTransport ==
    LoginExchange =>
      /\ last_http.o.kind = "client_error" =>
            /\ pc = "done"
            /\ result = "AuthenticationFailed"
            /\ returned = <<>>
            /\ attempt = last_http.attempt
            /\ consecutive_failures = hist.failuresBefore
      /\ last_http.o.kind = "timeout" =>
            IF last_http.attempt < LastAttempt
            THEN /\ pc = "login_get"
                 /\ attempt = last_http.attempt + 1
                 /\ slept = 2 ^ last_http.attempt
                 /\ result = "none"
            ELSE /\ pc = "done"
                 /\ consecutive_failures = hist.failuresBefore + 1
                 /\ IF consecutive_failures > 5
                    THEN result = "UpdateFailed" /\ returned = <<>>
                    ELSE result = "LastKnown" /\ returned = <<last_known_values>>
      /\ last_http.o.kind = "unexpected" =>
            IF last_http.attempt < LastAttempt
            THEN /\ pc = "login_get"
                 /\ attempt = last_http.attempt + 1
                 /\ slept = 2 ^ last_http.attempt
                 /\ result = "none"
            ELSE /\ pc = "done"
                 /\ consecutive_failures = hist.failuresBefore
                 /\ result = "LastKnown"
                 /\ returned = <<last_known_values>>

\* C14 witness: the login timed out on attempt 1 and was retried after 1 s;
\* on attempt 2 the POST failed with a transport error.
C14_Witness ==
    /\ last_http.req = "login_post"
    /\ last_http.o.kind = "client_error"
    /\ attempt = 1
    /\ slept = 1
    /\ hist.onlyTimeouts = FALSE
    /\ result = "AuthenticationFailed"


InCall == pc \in {"login_get", "login_post", "stats"}

\* How far the running call has got: three positions per attempt.
Rank ==
    3 * attempt + (CASE pc = "login_get"  -> 0
                     [] pc = "login_post" -> 1
                     [] OTHER             -> 2)

\* C17: a call never goes beyond its 3rd attempt, an attempt starts at most
\* one login and makes at most one statistics request (so a call makes at
\* most 3 of each), a running call can always take its next step, every step
\* of a running call either ends it or moves it strictly forward through the
\* at most 9 positions of its attempts, and a call that ended has returned a
\* Measurement or the Last-Known Values or raised AuthenticationFailed or
\* UpdateFailed.
C17_BoundedCall ==
    /\ [](/\ attempt <= 2
          /\ hist.attemptLogins <= 1
          /\ hist.attemptFetches <= 1
          /\ InCall => (Rank <= 8 /\ ENABLED Next)
          /\ pc = "done" =>
                /\ result \in {"Measurement", "LastKnown",
                               "AuthenticationFailed", "UpdateFailed"}
                /\ (returned # <<>>) <=> (result \in {"Measurement", "LastKnown"}))
    /\ [][InCall => (pc' = "done" \/ (InCall' /\ Rank' > Rank))]_vars

\* C17 witness: a call that used its three attempts, with a login and a
\* statistics request in each, and fell back to the Last-Known Values.
C17_Witness ==
    /\ pc = "done"
    /\ attempt = 2
    /\ hist.n401 = 2
    /\ hist.relogins = 2
    /\ hist.attemptLogins = 1
    /\ hist.attemptFetches = 1
    /\ result = "LastKnown"


\* The current attempt has completed a login: its latest exchange is the
\* POST of this attempt, answered 200.
LoggedInThisAttempt ==
    /\ last_http.req = "login_post"
    /\ last_http.attempt = attempt
    /\ Answered200(last_http)

\* C18 as stated, its consequence: a statistics request is never made with
\* an empty Session State (a request not answered 401 leaves the Session
\* State as it was when the request was made).
C18_NeverFetchedEmpty ==
    (last_http.req = "stats" /\ ~Is401(last_http.o)) => cookies # {}

\* C18 amended: an attempt logs in if and only if the Session State is empty
\* when the attempt starts, and the login is complete before the statistics
\* request; the request is made with the cookies of the login response,
\* which may be none; a Session State that is not empty is used as it is,
\* also by the first attempt of a later call, without a login.
C18_LoginIffEmptyAtStart ==
    /\ pc \in {"login_get", "login_post"} =>
          /\ hist.startEmpty
          /\ cookies = {}
          /\ hist.attemptFetches = 0
    /\ pc = "stats" =>
          /\ LoggedInThisAttempt <=> hist.startEmpty
          /\ hist.attemptLogins = (IF hist.startEmpty THEN 1 ELSE 0)
          /\ hist.attemptFetches = 0
          /\ LoggedInThisAttempt => cookies = last_http.o.jar
          /\ ~hist.startEmpty => cookies # {}
          /\ (attempt = 0 /\ ~hist.startEmpty) => last_http = NoHttp

\* C18 witness: the second call of the Poller is about to fetch the
\* statistics page with the Session State of the first call, without a login.
C18_Witness ==
    /\ pc = "stats"
    /\ calls = 2
    /\ attempt = 0
    /\ ~hist.startEmpty
    /\ hist.attemptLogins = 0
    /\ cookies = {"JSESSIONID=a"}


\* C19: UpdateFailed is raised only by a call whose final attempt failed and
\* that left the Failure Counter above 5, never by one of the first 5 calls
\* of the Poller; and once it was raised (the counter is above 5 when a call
\* starts), every call that uses up its attempts on a transient failure
\* raises it again.
C19_UpdateFailedSticky ==
    /\ (pc = "done" /\ result = "UpdateFailed") =>
          /\ consecutive_failures > 5
          /\ last_http.attempt = LastAttempt
          /\ calls > 5
    /\ (pc = "done" /\ hist.failuresBefore > 5
           /\ result \in {"LastKnown", "UpdateFailed"}) =>
          result = "UpdateFailed"


\* The running call has just returned a Measurement extracted from the page
\* of its statistics request.
ExtractedNow ==
    /\ pc = "done"
    /\ result = "Measurement"
    /\ last_http.req = "stats"

\* The texts of the cells that follow an "AL:" cell in one of the tables
DateCandidates(tables) ==
    UNION { { tables[t][i + 1] :
                i \in {j \in 1..(Len(tables[t]) - 1) : tables[t][j] = AL_LABEL} } :
            t \in 1..Len(tables) }

\* text is two digits, "/", two digits, "/", four digits
IsDDMMYYYY(text) ==
    /\ Len(text) = 10
    /\ text[3] = "/"
    /\ text[6] = "/"
    /\ \A i \in {1, 2, 4, 5, 7, 8, 9, 10} : text[i] \in Digits

\* DD/MM/YYYY written as YYYY-MM-DD
Reformatted(text) ==
    <<text[7], text[8], text[9], text[10], "-", text[4], text[5], "-", text[1], text[2]>>

\* The km of the finished call is what the rows alone give: the date cells
\* have no part in it.
KmUnaffected ==
    LET km == extract_km_value(last_http.o.page.rows, hist.lastBefore)
    IN  /\ returned[1].total_km = km.value
        /\ last_known_values.total_km =
              IF km.ok THEN km.value ELSE hist.lastBefore.total_km

\* C15: date extraction succeeds only for a cell text in DD/MM/YYYY form and
\* then gives it as YYYY-MM-DD; when no cell after "AL:" has that form (wrong
\* number of parts, non-numeric parts, wrong part lengths) the returned
\* updated_at is the Last-Known date and the Last-Known date is not
\* overwritten; the km is unaffected either way.
C15_OnlyDDMMYYYY ==
    ExtractedNow =>
        LET good == {c \in DateCandidates(last_http.o.page.tables) : IsDDMMYYYY(c)}
        IN  /\ IF good = {}
               THEN /\ returned[1].updated_at = hist.lastBefore.updated_at
                    /\ last_known_values.updated_at = hist.lastBefore.updated_at
               ELSE /\ returned[1].updated_at \in {Reformatted(c) : c \in good}
                    /\ last_known_values.updated_at = returned[1].updated_at
            /\ KmUnaffected

HasDigit(text) == \E i \in 1..Len(text) : text[i] \in Digits

SetMin(S) == CHOOSE x \in S : \A y \in S : x <= y

SetMax(S) == CHOOSE x \in S : \A y \in S : x >= y

\* The last run of digits of a text that has a digit
LastRun(text) ==
    LET e == SetMax({i \in 1..Len(text) : text[i] \in Digits})
        s == SetMin({j \in 1..e : \A k \in j..e : text[k] \in Digits})
    IN  SubSeq(text, s, e)

MarkerRows(rows) == {i \in 1..Len(rows) : Contains(rows[i], KM_MARKER)}

\* The km of the finished call comes from the first of the rows in S, or,
\* when S is empty, km extraction failed: the returned km is the Last-Known
\* km (0 when there is none) and the Last-Known km is not overwritten.
KmTakenFrom(rows, S) ==
    IF S = {}
    THEN /\ returned[1].total_km = OrZero(hist.lastBefore.total_km)
         /\ last_known_values.total_km = hist.lastBefore.total_km
    ELSE /\ returned[1].total_km = ParseInt(LastRun(rows[SetMin(S)]))
         /\ last_known_values.total_km = returned[1].total_km

\* C16 as stated: only the first row containing the marker is looked at; the
\* km is its last run of digits, and if it has no digits (or no row has the
\* marker) km extraction fails, whatever later marker rows hold.
C16_OnlyFirstMarkerRow ==
    ExtractedNow =>
        LET rows == last_http.o.page.rows
            m    == MarkerRows(rows)
        IN  KmTakenFrom(rows, IF m # {} /\ HasDigit(rows[SetMin(m)])
                              THEN {SetMin(m)} ELSE {})

\* C16: the km is the last run of digits, as an integer, of the first row
\* that contains both the marker and a digit (marker rows without digits are
\* skipped); km extraction fails only when there is no such row.  The row
\* "KM TOTALI PERCORSI 123456 KM" gives 123456.
C16_FirstMarkerRowWithDigits ==
    ExtractedNow =>
        LET rows == last_http.o.page.rows
        IN  /\ KmTakenFrom(rows, {i \in MarkerRows(rows) : HasDigit(rows[i])})
            /\ rows = <<RowOther, RowKm123456>> => returned[1].total_km = 123456

\* C16 witness: the first marker row has no digits and the km is taken from
\* the marker row after it.
C16_Witness ==
    /\ ExtractedNow
    /\ last_http.o.page.rows = <<RowNoDigits, RowKm45>>
    /\ returned[1].total_km = 45
    /\ last_known_values.total_km = 45

====
